---- MODULE Spec2Model ----
(***************************************************************************)
(* Model of app.py, the connectivity processor: two run-log CSVs and one   *)
(* master roster are loaded, cleaned, aggregated per device identifier,    *)
(* left-joined and summarised by (State, Customer Type).                   *)
(*                                                                         *)
(* Text values are sequences of one-character strings, so that split,      *)
(* upper and strip are computed character by character.  pandas semantics  *)
(* are those of pandas 1.x/2.x with object-dtype text columns:             *)
(* astype(str) turns a missing value into the text "nan", the .str         *)
(* accessor propagates missing values, groupby sorts its keys and drops    *)
(* missing keys, 'count' counts non-missing values, 'last' returns the     *)
(* last non-missing value, 'max' skips missing values.                     *)
(***************************************************************************)
EXTENDS Integers, Sequences, FiniteSets, TLC

VARIABLES
    csv_files,     \* the uploaded run-log files, a sequence of [cols, rows]
    master_file,   \* <<>> when no roster is uploaded, else <<[cols, rows]>>
    pc,            \* position of the script after the Run button
    error,         \* "" or the error reported to the user
    stages,        \* the pipeline stages that have run so far
    df_r,          \* [cols, rows]: the run-record table
    runs_summary,  \* sequence of DeviceAggregate rows
    mst,           \* sequence of cleaned AccountRecord rows
    final,         \* sequence of ConnectivityRow rows
    summary,       \* sequence of SummaryRow rows
    output,        \* <<>> or <<the two-sheet workbook>>
    raw,           \* key derivation alone: the raw value
    run_key,       \* key derivation alone: run-record side result
    mst_key,       \* key derivation alone: roster side result
    rederived      \* key derivation alone: <<run side, roster side>> derived again

vars == <<csv_files, master_file, pc, error, stages, df_r, runs_summary, mst,
          final, summary, output, raw, run_key, mst_key, rederived>>

deriveVars == <<raw, run_key, mst_key, rederived>>

-----------------------------------------------------------------------------
(* Bounds *)

MaxRuns == 2       \* run-log rows over the two CSV files together
MaxAccounts == 2   \* roster rows
MaxFiles == 3      \* uploaded CSV files
MaxLen == 3        \* length of a raw identifier in the derivation check

-----------------------------------------------------------------------------
(* Missing values *)

NaN == <<"NaN">>       \* missing value of a text column (never a real text: its
                       \* only element is not a single character)
NaT == 0 - 1           \* missing timestamp (timestamps are positive)
NaCount == 0 - 1       \* missing Total_Runs / count after a join

-----------------------------------------------------------------------------
(* Text operations *)

UpperChar(c) ==
    CASE c = "a" -> "A" [] c = "b" -> "B" [] c = "l" -> "L" [] c = "n" -> "N"
      [] c = "u" -> "U" [] c = "x" -> "X" [] c = "y" -> "Y"
      [] OTHER -> c

Upper(s) == [i \in 1..Len(s) |-> UpperChar(s[i])]

RECURSIVE LStrip(_)
LStrip(s) == IF s # <<>> /\ Head(s) = " " THEN LStrip(Tail(s)) ELSE s

RECURSIVE RStrip(_)
RStrip(s) ==
    IF s # <<>> /\ s[Len(s)] = " " THEN RStrip(SubSeq(s, 1, Len(s) - 1)) ELSE s

Strip(s) == RStrip(LStrip(s))

\* .str.split('-').str[0]: the text before the first hyphen
SplitFirst(s) ==
    LET hy == {i \in 1..Len(s) : s[i] = "-"}
    IN  IF hy = {} THEN s
        ELSE SubSeq(s, 1, (CHOOSE i \in hy : \A j \in hy : i <= j) - 1)

\* .astype(str): a missing value becomes the text "nan"
AsTypeStr(v) == IF v = NaN THEN <<"n", "a", "n">> ELSE v

\* .str.upper().str.strip() on a nullable text column
StrUpperStrip(v) == IF v = NaN THEN NaN ELSE Strip(Upper(v))

\* roster-side derivation with strip applied before the split
DeriveMst_StripFirst(v) == Upper(SplitFirst(Strip(AsTypeStr(v))))

\* run-record side: df_r['Truelab_id'] = ...astype(str).str.split('-').str[0].str.upper().str.strip()
DeriveRun(v) == Strip(Upper(SplitFirst(AsTypeStr(v))))

\* roster side: mst['Truelab_id'] = mst['Serial / Batch ID: Serial / Batch #']...
DeriveMst(v) == Strip(Upper(SplitFirst(AsTypeStr(v))))

\* pd.to_datetime(..., errors='coerce'): a timestamp, or NaT when the text
\* does not parse.  Timestamps are written as one digit.
ToDatetime(v) ==
    CASE v = <<"1">> -> 1 [] v = <<"2">> -> 2 [] v = <<"3">> -> 3
      [] OTHER -> NaT

\* Order of characters by code point, for the sorted keys of groupby/merge
CodeOrder ==
    <<" ", "-", "1", "2", "?", "A", "B", "C", "H", "L", "N", "T", "U", "X", "Y",
      "a", "b", "l", "n", "u", "x", "y">>

CodePoint(c) == CHOOSE i \in 1..Len(CodeOrder) : CodeOrder[i] = c

RECURSIVE LexLess(_, _)
LexLess(s, t) ==
    IF t = <<>> THEN FALSE
    ELSE IF s = <<>> THEN TRUE
    ELSE IF Head(s) = Head(t) THEN LexLess(Tail(s), Tail(t))
    ELSE CodePoint(Head(s)) < CodePoint(Head(t))

\* order of the key tuples of a groupby / merge: by each key column in turn
RECURSIVE KeyLess(_, _)
KeyLess(p, q) ==
    IF p = <<>> THEN FALSE
    ELSE IF Head(p) = Head(q) THEN KeyLess(Tail(p), Tail(q))
    ELSE LexLess(Head(p), Head(q))

RECURSIVE SortKeys(_)
SortKeys(S) ==
    IF S = {} THEN <<>>
    ELSE LET m == CHOOSE x \in S : \A y \in S \ {x} : KeyLess(x, y)
         IN  <<m>> \o SortKeys(S \ {m})

-----------------------------------------------------------------------------
(* Columns *)

required_cols ==
    {"Test_date_time", "Profile_id", "Patient_id", "Test_result", "Test_status",
     "Lab_name", "User_name", "Sample_type", "Truelab_id", "Lot",
     "Chip_serial_no", "Ct1", "Ct2", "Ct3", "Load1", "Load2", "Load3",
     "Bayno", "Chip_batchno", "Result_recieved_date"}

\* the run-log columns whose values the aggregation and the join read
DataCols == {"Test_date_time", "Patient_id", "Lab_name", "User_name", "Truelab_id"}

SerialCol == "Serial / Batch ID: Serial / Batch #"

\* the rename map of the roster
Renamed(c) ==
    CASE c = "Account Name" -> "Lab_name_Masterlist"
      [] c = "Billing State/Province" -> "State"
      [] c = "Account Owner: Full Name" -> "Account Owner"
      [] c = "Type" -> "Customer Type"
      [] OTHER -> c

\* the columns selected from the roster after the rename
MstCols ==
    {"Zone", "Lab_name_Masterlist", "State", "Account Owner", "Customer Type",
     "Truelab_id"}

\* the roster columns as the spreadsheet names them
RosterCols ==
    {"Zone", "Account Name", "Billing State/Province",
     "Account Owner: Full Name", "Type", SerialCol}

SERVICE == <<"S", "e", "r", "v", "i", "c", "e">>

-----------------------------------------------------------------------------
(* Load & append CSVs *)

\* pd.read_csv(file) inside pd.concat: the rows of one file over the union of
\* the columns, a column the file lacks filled with missing values
FileRows(f) ==
    [i \in 1..Len(f.rows) |->
        [c \in DataCols |-> IF c \in f.cols THEN f.rows[i][c] ELSE NaN]]

RECURSIVE ConcatRows(_)
ConcatRows(files) ==
    IF files = <<>> THEN <<>>
    ELSE FileRows(Head(files)) \o ConcatRows(Tail(files))

ConcatCols(files) == UNION {files[i].cols : i \in 1..Len(files)}

-----------------------------------------------------------------------------
(* Cleaning *)

\* the filter keeps every row, Service rows included
KeepRow_NoFilter(r) == TRUE

\* df_r[df_r['User_name'] != 'Service']
KeepRow(r) == r["User_name"] # SERVICE

CleanRow(r) ==
    [c \in DataCols |->
        CASE c = "Lab_name" -> StrUpperStrip(r[c])
          [] c = "Test_date_time" -> ToDatetime(r[c])
          [] c = "Truelab_id" -> DeriveRun(r[c])
          [] OTHER -> r[c]]

CleanRows(rows) ==
    LET kept == SelectSeq(rows, KeepRow)
    IN  [i \in 1..Len(kept) |-> CleanRow(kept[i])]

-----------------------------------------------------------------------------
(* Run summary *)

GroupIdx(rows, k) == {i \in 1..Len(rows) : rows[i]["Truelab_id"] = k}

SetMax(S) == CHOOSE x \in S : \A y \in S : y <= x
SetMin(S) == CHOOSE x \in S : \A y \in S : x <= y

\* ('Patient_id', 'count'): the number of non-missing values
AggCount(rows, idx, c) == Cardinality({i \in idx : rows[i][c] # NaN})

\* ('Test_date_time', 'max'): the maximum of the non-missing values
AggMax(rows, idx, c) ==
    LET ts == {rows[i][c] : i \in idx} \ {NaT}
    IN  IF ts = {} THEN NaT ELSE SetMax(ts)

\* 'first' in place of 'last'
AggLast_First(rows, idx, c) ==
    LET ok == {i \in idx : rows[i][c] # NaN}
    IN  IF ok = {} THEN NaN ELSE rows[SetMin(ok)][c]

\* ('Lab_name', 'last'): the last non-missing value in row order
AggLast(rows, idx, c) ==
    LET ok == {i \in idx : rows[i][c] # NaN}
    IN  IF ok = {} THEN NaN ELSE rows[SetMax(ok)][c]

\* df_r.groupby('Truelab_id').agg(...).reset_index(): one row per key, keys sorted
RunsSummary(rows) ==
    LET keys == SortKeys({<<rows[i]["Truelab_id"]>> : i \in 1..Len(rows)})
    IN  [j \in 1..Len(keys) |->
            LET k == keys[j][1]
                idx == GroupIdx(rows, k)
            IN  [Truelab_id |-> k,
                 Total_Runs |-> AggCount(rows, idx, "Patient_id"),
                 Last_Run_Date |-> AggMax(rows, idx, "Test_date_time"),
                 Lab_name_Dashboard |-> AggLast(rows, idx, "Lab_name")]]

-----------------------------------------------------------------------------
(* Master file *)

MstRow(a) ==
    [c \in MstCols |->
        CASE c = "Truelab_id" -> DeriveMst(a[SerialCol])
          [] c = "Lab_name_Masterlist" -> StrUpperStrip(a["Account Name"])
          [] c = "State" -> a["Billing State/Province"]
          [] c = "Account Owner" -> a["Account Owner: Full Name"]
          [] c = "Customer Type" -> a["Type"]
          [] OTHER -> a[c]]

CleanMaster(rows) == [i \in 1..Len(rows) |-> MstRow(rows[i])]

-----------------------------------------------------------------------------
(* Merge *)

RECURSIVE Flatten(_)
Flatten(ss) == IF ss = <<>> THEN <<>> ELSE Head(ss) \o Flatten(Tail(ss))

JoinedRow(l, r) ==
    l @@ ("Total_Runs" :> r.Total_Runs) @@
    ("Last_Run_Date" :> r.Last_Run_Date) @@
    ("Lab_name_Dashboard" :> r.Lab_name_Dashboard)

UnmatchedRow(l) ==
    l @@ ("Total_Runs" :> NaCount) @@ ("Last_Run_Date" :> NaT) @@
    ("Lab_name_Dashboard" :> NaN)

Matches(l, right) ==
    LET hit(r) == r.Truelab_id = l["Truelab_id"]
        rs == SelectSeq(right, hit)
    IN  [j \in 1..Len(rs) |-> JoinedRow(l, rs[j])]

\* how='inner': an unmatched left row is dropped
LeftJoin_Inner(left, right) ==
    Flatten([i \in 1..Len(left) |-> Matches(left[i], right)])

\* pd.merge(mst, runs_summary, on='Truelab_id', how='left'): left order kept,
\* one output row per matching right row, one null-filled row when none matches
LeftJoin(left, right) ==
    Flatten([i \in 1..Len(left) |->
        LET m == Matches(left[i], right)
        IN  IF m = <<>> THEN <<UnmatchedRow(left[i])>> ELSE m])

\* Status, fillna(0).astype(int), reset_index() and the column selection
Classify(joined) ==
    [i \in 1..Len(joined) |->
        joined[i] @@
        ("Status" :> IF joined[i]["Total_Runs"] = NaCount THEN "Inactive" ELSE "Active") @@
        ("index" :> i - 1)]

FillRuns(rows) ==
    [i \in 1..Len(rows) |->
        [rows[i] EXCEPT !["Total_Runs"] = IF @ = NaCount THEN 0 ELSE @]]

Merge(left, right) == FillRuns(Classify(LeftJoin(left, right)))

-----------------------------------------------------------------------------
(* Summary *)

WithStatus(rows, st) ==
    LET has(r) == r["Status"] = st IN SelectSeq(rows, has)

PairOf(r) == <<r["State"], r["Customer Type"]>>

\* groupby(['State','Customer Type']): a row with a missing key is in no group
GroupKeys(rows) ==
    {PairOf(rows[i]) : i \in {j \in 1..Len(rows) :
        rows[j]["State"] # NaN /\ rows[j]["Customer Type"] # NaN}}

\* .size()
GroupSize(rows, k) == Cardinality({i \in 1..Len(rows) : PairOf(rows[i]) = k})

\* how='left': only the pairs of the Active partition
MergeKeys_Left(a, b) == GroupKeys(a)

\* how='outer': the union of the pairs of both partitions
MergeKeys(a, b) == GroupKeys(a) \cup GroupKeys(b)

\* no fillna: a missing count stays missing
FillCount_None(v) == v

\* .fillna(0)
FillCount(v) == IF v = NaCount THEN 0 ELSE v

Summarise(rows) ==
    LET a == WithStatus(rows, "Active")
        b == WithStatus(rows, "Inactive")
        keys == SortKeys(MergeKeys(a, b))
    IN  [j \in 1..Len(keys) |->
            LET k == keys[j]
                ac == FillCount(IF k \in GroupKeys(a) THEN GroupSize(a, k) ELSE NaCount)
                ic == FillCount(IF k \in GroupKeys(b) THEN GroupSize(b, k) ELSE NaCount)
            IN  [State |-> k[1], Customer_Type |-> k[2],
                 Active_Count |-> ac, Inactive_Count |-> ic,
                 Total_Count |-> ac + ic]]

-----------------------------------------------------------------------------
(* The script after the Run button *)

\* at least two files are accepted
CountOK_AtLeast(files) == Len(files) >= 2

\* not (csv_files is None or len(csv_files) != 2)
CountOK(files) == Len(files) = 2

Fail(msg) ==
    /\ error' = msg
    /\ pc' = "failed"

Validation ==
    /\ pc = "idle"
    /\ IF ~CountOK(csv_files)
       THEN error' = "Please upload exactly 2 CSV files." /\ pc' = "stopped"
       ELSE IF master_file = <<>>
       THEN error' = "Please upload the Master Excel file." /\ pc' = "stopped"
       ELSE error' = error /\ pc' = "load"
    /\ UNCHANGED <<csv_files, master_file, stages, df_r, runs_summary, mst,
                   final, summary, output, deriveVars>>

LoadCSVs ==
    /\ pc = "load"
    /\ df_r' = [cols |-> ConcatCols(csv_files), rows |-> ConcatRows(csv_files)]
    /\ stages' = stages \cup {"load"}
    /\ pc' = "clean"
    /\ UNCHANGED <<csv_files, master_file, error, runs_summary, mst, final,
                   summary, output, deriveVars>>

Cleaning ==
    /\ pc = "clean"
    /\ IF required_cols \subseteq df_r.cols
       THEN /\ df_r' = [cols |-> required_cols, rows |-> CleanRows(df_r.rows)]
            /\ stages' = stages \cup {"clean"}
            /\ pc' = "aggregate"
            /\ error' = error
       ELSE /\ Fail("KeyError")
            /\ UNCHANGED <<df_r, stages>>
    /\ UNCHANGED <<csv_files, master_file, runs_summary, mst, final, summary,
                   output, deriveVars>>

RunSummary ==
    /\ pc = "aggregate"
    /\ runs_summary' = RunsSummary(df_r.rows)
    /\ stages' = stages \cup {"aggregate"}
    /\ pc' = "master"
    /\ UNCHANGED <<csv_files, master_file, error, df_r, mst, final, summary,
                   output, deriveVars>>

MasterFile ==
    /\ pc = "master"
    /\ LET f == master_file[1]
       IN  IF SerialCol \in f.cols /\ MstCols \subseteq {Renamed(c) : c \in f.cols} \cup {"Truelab_id"}
           THEN /\ mst' = CleanMaster(f.rows)
                /\ stages' = stages \cup {"master"}
                /\ pc' = "merge"
                /\ error' = error
           ELSE /\ Fail("KeyError")
                /\ UNCHANGED <<mst, stages>>
    /\ UNCHANGED <<csv_files, master_file, df_r, runs_summary, final, summary,
                   output, deriveVars>>

MergeStep ==
    /\ pc = "merge"
    /\ final' = Merge(mst, runs_summary)
    /\ stages' = stages \cup {"join"}
    /\ pc' = "summary"
    /\ UNCHANGED <<csv_files, master_file, error, df_r, runs_summary, mst,
                   summary, output, deriveVars>>

SummaryStep ==
    /\ pc = "summary"
    /\ summary' = Summarise(final)
    /\ stages' = stages \cup {"summary"}
    /\ pc' = "export"
    /\ UNCHANGED <<csv_files, master_file, error, df_r, runs_summary, mst,
                   final, output, deriveVars>>

Export ==
    /\ pc = "export"
    /\ output' = <<[Detailed_Connectivity |-> final,
                    State_wise_connectivity |-> summary]>>
    /\ stages' = stages \cup {"export"}
    /\ pc' = "done"
    /\ UNCHANGED <<csv_files, master_file, error, df_r, runs_summary, mst,
                   final, summary, deriveVars>>

Next ==
    \/ Validation
    \/ LoadCSVs
    \/ Cleaning
    \/ RunSummary
    \/ MasterFile
    \/ MergeStep
    \/ SummaryStep
    \/ Export

-----------------------------------------------------------------------------
(* Inputs *)

SeqsUpTo(S, n) == UNION {[1..k -> S] : k \in 0..n}

ADMIN == <<"u">>

RunRow(u, p, l, id, t) ==
    [User_name |-> u, Patient_id |-> p, Lab_name |-> l, Truelab_id |-> id,
     Test_date_time |-> t]

\* rows that vary in operator, patient and device identifier
IdentRows ==
    {RunRow(u, p, <<"x", " ">>, id, <<"1">>) :
        u \in {SERVICE, ADMIN}, p \in {NaN, <<"p">>},
        id \in {NaN, <<"a", "-", "1">>, <<"-", "x">>}}

\* rows that vary in lab name, timestamp and device identifier
LabRows ==
    {RunRow(ADMIN, <<"p">>, l, id, t) :
        l \in {NaN, <<"x", " ">>, <<"Y">>}, id \in {<<"a", "-", "1">>, <<"b">>},
        t \in {<<"1">>, <<"2">>}}

FullFile(rows) == [cols |-> required_cols, rows |-> rows]

\* every way to put at most MaxRuns rows of S into two files
TwoFiles(S) ==
    UNION {{<<FullFile(SubSeq(all, 1, cut)),
              FullFile(SubSeq(all, cut + 1, Len(all)))>> : cut \in 0..Len(all)} :
           all \in SeqsUpTo(S, MaxRuns)}

Account(serial, state, type) ==
    (SerialCol :> serial) @@ ("Account Name" :> <<" ", "l">>) @@
    ("Billing State/Province" :> state) @@ ("Account Owner: Full Name" :> <<"B">>) @@
    ("Type" :> type) @@ ("Zone" :> <<"U">>)

TX == <<"T", "X">>
CA == <<"C", "A">>
HOSP == <<"H">>

Accounts ==
    {Account(s, st, ty) :
        s \in {NaN, <<"a", "-", "2">>, <<"b">>}, st \in {NaN, TX, CA},
        ty \in {NaN, HOSP}}

FullRoster(rows) == [cols |-> RosterCols, rows |-> rows]

\* a roster with a missing serial, an empty derived identifier and a device
ProbeRoster ==
    <<Account(NaN, TX, HOSP), Account(<<"-", "b">>, TX, HOSP),
      Account(<<"a", "-", "2">>, CA, HOSP), Account(<<"A">>, CA, HOSP)>>

\* run logs with two runs of device A, one of them with an unparseable
\* timestamp, one run without device identifier and one Service run
ProbeRuns ==
    <<FullFile(<<RunRow(ADMIN, <<"p">>, <<"x", " ">>, <<"a", "-", "1">>, <<"2">>),
                 RunRow(ADMIN, <<"p">>, <<"Y">>, NaN, <<"1">>)>>),
      FullFile(<<RunRow(ADMIN, <<"p">>, NaN, <<"A">>, <<"?">>),
                 RunRow(SERVICE, <<"p">>, <<"Y">>, <<"b">>, <<"1">>)>>)>>

\* files as they may be uploaded: complete, or lacking a required column
FileChoices ==
    {FullFile(<<RunRow(ADMIN, <<"p">>, <<"Y">>, <<"A">>, <<"1">>)>>),
     [cols |-> required_cols \ {"Lot"},
      rows |-> <<RunRow(ADMIN, <<"p">>, <<"Y">>, <<"A">>, <<"1">>)>>],
     [cols |-> required_cols \ {"User_name"},
      rows |-> <<RunRow(NaN, <<"p">>, <<"Y">>, <<"b">>, <<"1">>)>>]}

RosterHeaders ==
    {RosterCols, RosterCols \ {"Zone"}, RosterCols \ {SerialCol},
     RosterCols \ {"Account Name"}}

PipelineIdle ==
    /\ pc = "idle"
    /\ error = ""
    /\ stages = {}
    /\ df_r = [cols |-> {}, rows |-> <<>>]
    /\ runs_summary = <<>>
    /\ mst = <<>>
    /\ final = <<>>
    /\ summary = <<>>
    /\ output = <<>>

DeriveIdle ==
    /\ raw = NaN
    /\ run_key = NaN
    /\ mst_key = NaN
    /\ rederived = <<>>

\* run logs varied, roster fixed
InitRuns ==
    /\ csv_files \in TwoFiles(IdentRows) \cup TwoFiles(LabRows)
    /\ master_file = <<FullRoster(ProbeRoster)>>

\* roster varied, run logs fixed
InitRoster ==
    /\ csv_files = ProbeRuns
    /\ master_file \in {<<FullRoster(r)>> : r \in SeqsUpTo(Accounts, MaxAccounts)}

\* number of files and headers varied
InitUploads ==
    /\ csv_files \in SeqsUpTo(FileChoices, MaxFiles)
    /\ master_file \in {<<>>} \cup
           {<<[cols |-> h, rows |-> ProbeRoster]>> : h \in RosterHeaders}

Init ==
    /\ InitRuns \/ InitRoster \/ InitUploads
    /\ PipelineIdle
    /\ DeriveIdle

Spec == Init /\ [][Next]_vars

-----------------------------------------------------------------------------
(* Key derivation alone *)

Chars == {"a", "A", "1", "-", " "}

RawValues == {NaN} \cup SeqsUpTo(Chars, MaxLen)

DeriveRunSide ==
    /\ pc = "raw"
    /\ run_key' = DeriveRun(raw)
    /\ pc' = "run"
    /\ UNCHANGED <<raw, mst_key, rederived>>
    /\ UNCHANGED <<csv_files, master_file, error, stages, df_r, runs_summary,
                   mst, final, summary, output>>

DeriveMstSide ==
    /\ pc = "run"
    /\ mst_key' = DeriveMst(raw)
    /\ pc' = "derived"
    /\ UNCHANGED <<raw, run_key, rederived>>
    /\ UNCHANGED <<csv_files, master_file, error, stages, df_r, runs_summary,
                   mst, final, summary, output>>

\* the derived identifiers put through the derivation again
Rederive ==
    /\ pc = "derived"
    /\ rederived' = <<DeriveRun(run_key), DeriveMst(mst_key)>>
    /\ pc' = "rederived"
    /\ UNCHANGED <<raw, run_key, mst_key>>
    /\ UNCHANGED <<csv_files, master_file, error, stages, df_r, runs_summary,
                   mst, final, summary, output>>

NextDerive == DeriveRunSide \/ DeriveMstSide \/ Rederive

InitDerive ==
    /\ raw \in RawValues
    /\ run_key = NaN
    /\ mst_key = NaN
    /\ rederived = <<>>
    /\ pc = "raw"
    /\ csv_files = <<>>
    /\ master_file = <<>>
    /\ error = ""
    /\ stages = {}
    /\ df_r = [cols |-> {}, rows |-> <<>>]
    /\ runs_summary = <<>>
    /\ mst = <<>>
    /\ final = <<>>
    /\ summary = <<>>
    /\ output = <<>>

SpecDerive == InitDerive /\ [][NextDerive]_vars

-----------------------------------------------------------------------------
(* Properties *)

Joined == "join" \in stages
Aggregated == "aggregate" \in stages
Summarised == "summary" \in stages

\* the run-log rows as uploaded: file 1's rows, then file 2's rows
UploadedRuns == csv_files[1].rows \o csv_files[2].rows

\* positions of the uploaded rows that survive the Service filter and derive
\* the device identifier k
RunsOf(k) ==
    {i \in 1..Len(UploadedRuns) :
        /\ UploadedRuns[i]["User_name"] # SERVICE
        /\ DeriveRun(UploadedRuns[i]["Truelab_id"]) = k}

UploadedAccounts == master_file[1].rows

RECURSIVE SumTotal(_)
SumTotal(rows) ==
    IF rows = <<>> THEN 0 ELSE Head(rows).Total_Count + SumTotal(Tail(rows))

RowsWith(pair, st) ==
    {i \in 1..Len(final) : PairOf(final[i]) = pair /\ final[i]["Status"] \in st}

BothStatus == {"Active", "Inactive"}

\* C1: the left join outputs exactly one ConnectivityRow per AccountRecord, in
\* roster order, with 'index' running 0..n-1, whatever the run records are and
\* also when several accounts derive the same device identifier.
C1_LeftJoinKeepsRoster ==
    Joined =>
        /\ Len(final) = Len(UploadedAccounts)
        /\ \A i \in 1..Len(final) :
            /\ final[i]["index"] = i - 1
            /\ final[i]["Truelab_id"] = DeriveMst(UploadedAccounts[i][SerialCol])
            /\ final[i]["State"] = UploadedAccounts[i]["Billing State/Province"]
            /\ final[i]["Customer Type"] = UploadedAccounts[i]["Type"]
            /\ final[i]["Zone"] = UploadedAccounts[i]["Zone"]
            /\ final[i]["Account Owner"] = UploadedAccounts[i]["Account Owner: Full Name"]

\* two accounts with the same device identifier, matched, and one unmatched
C1_Witness ==
    /\ Joined
    /\ \E i, j \in 1..Len(final) :
        /\ i # j
        /\ final[i]["Truelab_id"] = final[j]["Truelab_id"]
        /\ final[i]["Status"] = "Active"
    /\ \E i \in 1..Len(final) : final[i]["Status"] = "Inactive"

\* C2: Status is "Active" iff some uploaded run record whose User_name is not
\* "Service" derives the account's device identifier; otherwise Status is
\* "Inactive", Total_Runs is 0 and Last_Run_Date, Lab_name_Dashboard are null.
C2_ActiveIffCleanedRun ==
    Joined =>
        \A i \in 1..Len(final) :
            IF RunsOf(final[i]["Truelab_id"]) # {}
            THEN final[i]["Status"] = "Active"
            ELSE /\ final[i]["Status"] = "Inactive"
                 /\ final[i]["Total_Runs"] = 0
                 /\ final[i]["Last_Run_Date"] = NaT
                 /\ final[i]["Lab_name_Dashboard"] = NaN

\* an account whose only run records are Service runs, next to an Active one
C2_Witness ==
    /\ Joined
    /\ \E i \in 1..Len(final) :
        /\ final[i]["Status"] = "Inactive"
        /\ \E j \in 1..Len(UploadedRuns) :
            /\ UploadedRuns[j]["User_name"] = SERVICE
            /\ DeriveRun(UploadedRuns[j]["Truelab_id"]) = final[i]["Truelab_id"]
    /\ \E i \in 1..Len(final) : final[i]["Status"] = "Active"

\* C3: one DeviceAggregate per distinct device identifier of the cleaned run
\* records, and its Total_Runs is the number of rows of the group, also for
\* rows whose Patient_id is null.
C3_TotalRunsIsGroupSize ==
    Aggregated =>
        /\ {runs_summary[j].Truelab_id : j \in 1..Len(runs_summary)} =
               {DeriveRun(UploadedRuns[i]["Truelab_id"]) :
                    i \in {n \in 1..Len(UploadedRuns) :
                              UploadedRuns[n]["User_name"] # SERVICE}}
        /\ \A j, k \in 1..Len(runs_summary) :
               runs_summary[j].Truelab_id = runs_summary[k].Truelab_id => j = k
        /\ \A j \in 1..Len(runs_summary) :
               runs_summary[j].Total_Runs =
                   Cardinality(RunsOf(runs_summary[j].Truelab_id))

\* C4 as stated: Lab_name_Dashboard is the cleaned Lab_name of the group's
\* sequentially last row (file 1 then file 2), whatever that value is, null
\* included.
C4_LabIsLastRow ==
    Aggregated =>
        \A j \in 1..Len(runs_summary) :
            LET idx == RunsOf(runs_summary[j].Truelab_id)
            IN  runs_summary[j].Lab_name_Dashboard =
                    StrUpperStrip(UploadedRuns[SetMax(idx)]["Lab_name"])

\* C4 amended: Lab_name_Dashboard is the cleaned Lab_name of the group's
\* sequentially last row that has a Lab_name (file 1 then file 2, no sorting
\* by timestamp), and null only when no row of the group has one.
C4_LabIsLastNonNull ==
    Aggregated =>
        \A j \in 1..Len(runs_summary) :
            LET idx == RunsOf(runs_summary[j].Truelab_id)
                named == {i \in idx : UploadedRuns[i]["Lab_name"] # NaN}
            IN  runs_summary[j].Lab_name_Dashboard =
                    IF named = {} THEN NaN
                    ELSE StrUpperStrip(UploadedRuns[SetMax(named)]["Lab_name"])

\* a group whose last row is in file 2 and is older than a row of file 1 that
\* names another lab
C4_Witness ==
    /\ Aggregated
    /\ Len(csv_files[1].rows) = 1
    /\ Len(csv_files[2].rows) = 1
    /\ LET a == csv_files[1].rows[1]
           b == csv_files[2].rows[1]
       IN  /\ DeriveRun(a["Truelab_id"]) = DeriveRun(b["Truelab_id"])
           /\ a["Lab_name"] # NaN /\ b["Lab_name"] # NaN
           /\ a["Lab_name"] # b["Lab_name"]
           /\ ToDatetime(a["Test_date_time"]) > ToDatetime(b["Test_date_time"])
           /\ ToDatetime(b["Test_date_time"]) # NaT
           /\ Len(runs_summary) = 1
           /\ runs_summary[1].Lab_name_Dashboard = StrUpperStrip(b["Lab_name"])

\* C5 as stated: every (State, Customer Type) pair of a ConnectivityRow has a
\* summary row whose Total_Count is the number of ConnectivityRows with that
\* pair, and the Total_Counts add up to the number of ConnectivityRows.
C5_TotalCountEveryPair ==
    Summarised =>
        /\ \A i \in 1..Len(final) :
            \E j \in 1..Len(summary) :
                /\ <<summary[j].State, summary[j].Customer_Type>> = PairOf(final[i])
                /\ summary[j].Total_Count =
                       Cardinality(RowsWith(PairOf(final[i]), BothStatus))
        /\ SumTotal(summary) = Len(final)

HasPair(r) == r["State"] # NaN /\ r["Customer Type"] # NaN

\* C5 amended: every pair of a ConnectivityRow whose State and Customer Type
\* are both non-null has a summary row whose Total_Count is the number of
\* ConnectivityRows with that pair, and the Total_Counts add up to the number
\* of ConnectivityRows whose State and Customer Type are both non-null.
C5_TotalCountNonNullPairs ==
    Summarised =>
        /\ \A i \in 1..Len(final) :
            HasPair(final[i]) =>
                \E j \in 1..Len(summary) :
                    /\ <<summary[j].State, summary[j].Customer_Type>> = PairOf(final[i])
                    /\ summary[j].Total_Count =
                           Cardinality(RowsWith(PairOf(final[i]), BothStatus))
        /\ SumTotal(summary) =
               Cardinality({i \in 1..Len(final) : HasPair(final[i])})

\* a pair with an Active and an Inactive account, and a pair with only
\* Inactive accounts
C5_Witness ==
    /\ Summarised
    /\ \E j \in 1..Len(summary) :
        /\ summary[j].Total_Count = 2
        /\ summary[j].Active_Count = 1
    /\ \E j \in 1..Len(summary) :
        /\ summary[j].Active_Count = 0
        /\ summary[j].Total_Count > 0

\* C6: every SummaryRow has Total_Count = Active_Count + Inactive_Count, the
\* two counts being the numbers of Active and Inactive ConnectivityRows of the
\* pair (0, not null, when there are none); a pair has at most one SummaryRow
\* and no SummaryRow has Total_Count 0.
C6_SummaryRowCounts ==
    Summarised =>
        /\ \A j \in 1..Len(summary) :
            LET pair == <<summary[j].State, summary[j].Customer_Type>>
            IN  /\ summary[j].Total_Count =
                       summary[j].Active_Count + summary[j].Inactive_Count
                /\ summary[j].Active_Count = Cardinality(RowsWith(pair, {"Active"}))
                /\ summary[j].Inactive_Count = Cardinality(RowsWith(pair, {"Inactive"}))
                /\ summary[j].Total_Count > 0
        /\ \A j, k \in 1..Len(summary) :
            (summary[j].State = summary[k].State /\
             summary[j].Customer_Type = summary[k].Customer_Type) => j = k

\* a pair that occurs only among Active rows and one only among Inactive rows
C6_Witness ==
    /\ Summarised
    /\ \E j \in 1..Len(summary) :
        summary[j].Active_Count > 0 /\ summary[j].Inactive_Count = 0
    /\ \E j \in 1..Len(summary) :
        summary[j].Active_Count = 0 /\ summary[j].Inactive_Count > 0

HeaderDefect ==
    \/ \E i \in 1..Len(csv_files) : ~(required_cols \subseteq csv_files[i].cols)
    \/ master_file # <<>> /\ ~(RosterCols \subseteq master_file[1].cols)

\* C7: when the header of a run-log file or of the roster lacks a required
\* column, the run fails with a schema error before cleaning, aggregation,
\* join or summary has run on any table.
C7_SchemaErrorBeforeTransform ==
    (CountOK(csv_files) /\ master_file # <<>> /\ HeaderDefect) =>
        /\ stages \cap {"clean", "aggregate", "join", "summary"} = {}
        /\ pc # "done"
        /\ output = <<>>

Terminal == {"done", "stopped", "failed"}

\* C8: an invocation ends either with both sheets produced and no error, or
\* with an error reported and no output; nothing is produced before the end;
\* and with a file count other than 2 or no roster the error is reported and
\* no load, clean, aggregate, join, summary or export step runs.
C8_BothSheetsOrError ==
    /\ pc \in Terminal =>
        \/ /\ error = ""
           /\ output = <<[Detailed_Connectivity |-> final,
                          State_wise_connectivity |-> summary]>>
           /\ {"join", "summary", "export"} \subseteq stages
        \/ /\ error # ""
           /\ output = <<>>
    /\ pc \notin Terminal => output = <<>> /\ error = ""
    /\ (pc # "idle" /\ (Len(csv_files) # 2 \/ master_file = <<>>)) =>
        /\ pc = "stopped"
        /\ error # ""
        /\ stages = {}
        /\ output = <<>>

\* three files uploaded, the run stopped with the error
C8_Witness ==
    /\ pc = "stopped"
    /\ Len(csv_files) > 2
    /\ master_file # <<>>
    /\ error # ""

\* C9: an account whose raw serial is null or whose derived identifier is
\* empty matches no DeviceAggregate: it is Inactive with Total_Runs 0.
C9_EmptyKeyNeverMatches ==
    Joined =>
        \A i \in 1..Len(final) :
            (UploadedAccounts[i][SerialCol] = NaN \/ final[i]["Truelab_id"] = <<>>) =>
                final[i]["Status"] = "Inactive" /\ final[i]["Total_Runs"] = 0

LowerCase == {"a", "b", "l", "n", "u", "x", "y"}

Clean(k) ==
    /\ \A i \in 1..Len(k) : k[i] # "-" /\ k[i] \notin LowerCase
    /\ k # <<>> => k[1] # " " /\ k[Len(k)] # " "

\* C10: the run-record side and the roster side derive the same identifier
\* from every raw value, deriving again from a derived identifier returns it,
\* and a derived identifier has no hyphen, no lower-case letter and no
\* leading or trailing whitespace.
C10_DeriveIdempotent ==
    /\ pc \in {"derived", "rederived"} =>
        run_key = mst_key /\ Clean(run_key) /\ Clean(mst_key)
    /\ pc = "rederived" => rederived = <<run_key, mst_key>>

\* a raw value with a lower-case prefix, whitespace and a hyphen
C10_Witness ==
    /\ pc = "rederived"
    /\ raw # NaN
    /\ \E i \in 1..Len(raw) : raw[i] = "-"
    /\ raw # <<>> /\ raw[1] = " "
    /\ run_key = <<"A">>

====
